---- MODULE Spec2Model ----
(***************************************************************************)
(* Model of the two reconcilers of the collection:                         *)
(*   plugins/modules/floating_ip.py  (allocate / release a floating ip)    *)
(*   plugins/modules/image_import.py (import / delete an image)            *)
(* One action is one module run (main -> core -> allocate | release |      *)
(* import_ | delete).  The cloud inventory is the state; every call to the *)
(* cloud (and to local storage) is recorded in the run's call trace.       *)
(* Python's None and '' are both falsy; both are "" (or <<>> for the       *)
(* character strings of the image module) here.                            *)
(***************************************************************************)
EXTENDS Integers, Sequences, FiniteSets

VARIABLES
    fips,       \* cloud inventory: floating ips, in the order the cloud lists them
    images,     \* cloud inventory: images, in the order the cloud lists them
    leftover,   \* local storage: files written by a run that outlive it
    last,       \* the latest module run: its parameters and its outcome
    prev        \* the run before it, when it had the same parameters

vars == <<fips, images, leftover, last, prev>>

\* ---------------------------------------------------------------- bounds

\* Floating ips the inventory holds before the first run.
MaxFips == 2
\* Image quota of the cloud: create_image is refused beyond it.
MaxImages == 2

\* ------------------------------------------------------- cloud inventory

NoProject == [id |-> "", name |-> ""]
NoNetwork == [id |-> "", name |-> "", tenant_id |-> ""]

\* cloud.current_project and the projects cloud.get_project can find
Projects ==
    << [id |-> "p1", name |-> "devstack"],
       [id |-> "p2", name |-> "other"] >>

current_project == Projects[1]

\* The networks cloud.search_networks can list: ext_net is unique per
\* project, two networks of devstack share the name dup.
Networks ==
    << [id |-> "n1", name |-> "ext_net", tenant_id |-> "p1"],
       [id |-> "n2", name |-> "ext_net", tenant_id |-> "p2"],
       [id |-> "n3", name |-> "dup",     tenant_id |-> "p1"],
       [id |-> "n4", name |-> "dup",     tenant_id |-> "p1"] >>

Addresses == {"203.0.113.1", "203.0.113.2"}

\* Floating ips that may exist before the first run.
FipRecs ==
    [floating_ip_address : Addresses, network : {"n1"}, tenant_id : {"p1", "p2"}]

SeqsUpTo(S, n) == UNION {[1..k -> S] : k \in 0..n}

\* ------------------------------------------------- floating_ip: resolvers

NoCalls == <<>>

\* cloud.get_project(name_or_id=...)
cloud_get_project(name_or_id) ==
    LET found == SelectSeq(Projects,
                           LAMBDA p : p.id = name_or_id \/ p.name = name_or_id)
    IN  IF found = <<>> THEN NoProject ELSE found[1]

is_current_project_only_empty(name_or_id) == name_or_id = ""

\* get_project, line 123: the current project answers without a lookup
is_current_project(name_or_id) ==
    name_or_id = "" \/ name_or_id \in {current_project.name, current_project.id}

get_project(name_or_id) ==
    IF is_current_project(name_or_id)
    THEN [ok |-> TRUE, error |-> "", project |-> current_project, calls |-> NoCalls]
    ELSE LET project == cloud_get_project(name_or_id)
             calls == <<[fn |-> "getProject", name_or_id |-> name_or_id]>>
         IN  IF project = NoProject
             THEN [ok |-> FALSE, error |-> "NotFoundError",
                   project |-> NoProject, calls |-> calls]
             ELSE [ok |-> TRUE, error |-> "", project |-> project, calls |-> calls]

\* cloud.search_networks(name_or_id=..., filters={'tenant_id': ...} or None)
search_networks(name_or_id, project_id) ==
    SelectSeq(Networks,
              LAMBDA n : /\ (n.id = name_or_id \/ n.name = name_or_id)
                         /\ (project_id = "" \/ n.tenant_id = project_id))

network_invalid_only_empty(networks) == networks = <<>>

\* get_network, line 142
network_invalid(networks) == networks = <<>> \/ Len(networks) > 1

get_network(name_or_id, project_id) ==
    LET networks == search_networks(name_or_id, project_id)
        calls == <<[fn |-> "searchNetworks", name_or_id |-> name_or_id,
                    tenant_id |-> project_id]>>
    IN  IF network_invalid(networks)
        THEN [ok |-> FALSE, error |-> "AmbiguousResourceError",
              network |-> NoNetwork, calls |-> calls]
        ELSE [ok |-> TRUE, error |-> "", network |-> networks[1], calls |-> calls]

\* ----------------------------------------------- floating_ip: cloud calls

\* cloud.search_floating_ips(filters=...): a key the filter lacks is ""
search_floating_ips(inv, filters) ==
    SelectSeq(inv,
              LAMBDA f : /\ f.network = filters.network
                         /\ f.tenant_id = filters.tenant_id
                         /\ (filters.floating_ip_address = ""
                               \/ f.floating_ip_address = filters.floating_ip_address))

\* cloud.network.create_ip(...): the cloud assigns env.address when the
\* caller gives none; it refuses an address in use on the network, and may
\* fail for reasons of its own (env.fail).
create_ip(inv, floating_ip_address, floating_network_id, tenant_id, env) ==
    LET address == IF floating_ip_address /= "" THEN floating_ip_address
                   ELSE env.address
        used == {inv[i].floating_ip_address :
                    i \in {j \in 1..Len(inv) : inv[j].network = floating_network_id}}
        fip == [floating_ip_address |-> address, network |-> floating_network_id,
                tenant_id |-> tenant_id]
    IN  IF env.fail \/ address \in used
        THEN [ok |-> FALSE, fip |-> fip, fips |-> inv]
        ELSE [ok |-> TRUE, fip |-> fip, fips |-> Append(inv, fip)]

\* every floating ip of the address removed, whoever owns it
delete_ip_by_address(inv, fip, env) ==
    IF env.fail THEN [ok |-> FALSE, fips |-> inv]
    ELSE [ok |-> TRUE,
          fips |-> SelectSeq(inv, LAMBDA f :
                      f.floating_ip_address /= fip.floating_ip_address)]

\* cloud.network.delete_ip(floating_ip=fip, ignore_missing=False)
delete_ip(inv, fip, env) ==
    LET at == {i \in 1..Len(inv) : inv[i] = fip}
        k == CHOOSE i \in at : \A j \in at : i <= j
    IN  IF env.fail \/ at = {}
        THEN [ok |-> FALSE, fips |-> inv]
        ELSE [ok |-> TRUE,
              fips |-> SubSeq(inv, 1, k - 1) \o SubSeq(inv, k + 1, Len(inv))]

\* ------------------------------------------------- floating_ip: outcomes

FipRaise(error, calls, inv) ==
    [ok |-> FALSE, error |-> error, changed |-> FALSE,
     floating_ip_address |-> "", floating_network_name |-> "",
     floating_network_id |-> "", project_name |-> "", project_id |-> "",
     calls |-> calls, fips |-> inv]

FipReturn(changed, address, network, project, calls, inv) ==
    [ok |-> TRUE, error |-> "", changed |-> changed,
     floating_ip_address |-> address, floating_network_name |-> network.name,
     floating_network_id |-> network.id, project_name |-> project.name,
     project_id |-> project.id, calls |-> calls, fips |-> inv]

\* ---------------------------------------------------- floating_ip: allocate

fip_filters_without_address(network, project, floating_ip_address) ==
    [network |-> network.id, tenant_id |-> project.id, floating_ip_address |-> ""]

\* allocate, lines 161-164
fip_filters(network, project, floating_ip_address) ==
    [network |-> network.id, tenant_id |-> project.id,
     floating_ip_address |-> floating_ip_address]

fip_exists_many(found) == Len(found) > 1

\* allocate, line 168: if fips
fip_exists(found) == found /= <<>>

allocate(in, inv, env) ==
    LET pr == get_project(in.project_name) IN
    IF ~pr.ok THEN FipRaise(pr.error, pr.calls, inv) ELSE
    LET nr == get_network(in.floating_network_name, pr.project.id)
        c1 == pr.calls \o nr.calls
    IN
    IF ~nr.ok THEN FipRaise(nr.error, c1, inv) ELSE
    LET filters == fip_filters(nr.network, pr.project, in.floating_ip_address)
        found == search_floating_ips(inv, filters)
        c2 == Append(c1, [fn |-> "searchFloatingIPs", filters |-> filters])
    IN
    IF fip_exists(found)
    THEN FipReturn(FALSE, found[1].floating_ip_address, nr.network, pr.project, c2, inv)
    ELSE
    LET cr == create_ip(inv, in.floating_ip_address, nr.network.id, pr.project.id, env)
        c3 == Append(c2, [fn |-> "createFloatingIP",
                          floating_ip_address |-> in.floating_ip_address,
                          floating_network_id |-> nr.network.id,
                          tenant_id |-> pr.project.id,
                          timeout |-> in.timeout, wait |-> in.wait])
    IN
    IF ~cr.ok THEN FipRaise("CollaboratorError", c3, inv)
    ELSE FipReturn(TRUE, cr.fip.floating_ip_address, nr.network, pr.project, c3, cr.fips)

\* ----------------------------------------------------- floating_ip: release

release_filters_any_address(network, project, floating_ip_address) ==
    [network |-> network.id, tenant_id |-> project.id, floating_ip_address |-> ""]

\* release, lines 195-199
release_filters(network, project, floating_ip_address) ==
    [network |-> network.id, tenant_id |-> project.id,
     floating_ip_address |-> floating_ip_address]

fip_absent_never(found) == FALSE

\* release, line 201: if not fips
fip_absent(found) == found = <<>>

fip_ambiguous_never(found) == FALSE

\* release, lines 205-208: assert len(fips) == 1, then the same test again
fip_ambiguous(found) == Len(found) /= 1

release(in, inv, env) ==
    LET pr == get_project(in.project_name) IN
    IF ~pr.ok THEN FipRaise(pr.error, pr.calls, inv) ELSE
    LET nr == get_network(in.floating_network_name, pr.project.id)
        c1 == pr.calls \o nr.calls
    IN
    IF ~nr.ok THEN FipRaise(nr.error, c1, inv) ELSE
    LET filters == release_filters(nr.network, pr.project, in.floating_ip_address)
        found == search_floating_ips(inv, filters)
        c2 == Append(c1, [fn |-> "searchFloatingIPs", filters |-> filters])
    IN
    IF fip_absent(found)
    THEN FipReturn(FALSE, in.floating_ip_address, nr.network, pr.project, c2, inv)
    ELSE
    IF fip_ambiguous(found) THEN FipRaise("AssertionError", c2, inv) ELSE
    LET dr == delete_ip(inv, found[1], env)
        c3 == Append(c2, [fn |-> "deleteFloatingIP", floating_ip |-> found[1],
                          ignore_missing |-> FALSE])
    IN
    IF ~dr.ok THEN FipRaise("CollaboratorError", c3, inv)
    ELSE FipReturn(TRUE, found[1].floating_ip_address, nr.network, pr.project, c3, dr.fips)

\* ------------------------------------------------- floating_ip: core, main

\* core, lines 226-234: the parameters echoed, nothing contacted
fip_check_mode(in, inv) ==
    [ok |-> TRUE, error |-> "", changed |-> FALSE,
     floating_ip_address |-> in.floating_ip_address,
     floating_network_name |-> in.floating_network_name,
     floating_network_id |-> "", project_name |-> in.project_name,
     project_id |-> "", calls |-> NoCalls, fips |-> inv]

fip_core_without_check_mode(in, inv, env) ==
    IF in.state = "present" THEN allocate(in, inv, env)
    ELSE release(in, inv, env)

fip_core(in, inv, env) ==
    IF in.check_mode THEN fip_check_mode(in, inv)
    ELSE IF in.state = "present" THEN allocate(in, inv, env)
    ELSE release(in, inv, env)

fip_main_without_required_if(in, inv, env) == fip_core(in, inv, env)

\* main, lines 276-278: required_if state absent -> floating_ip_address
fip_main(in, inv, env) ==
    IF in.state = "absent" /\ in.floating_ip_address = ""
    THEN FipRaise("MissingPrerequisiteError", NoCalls, inv)
    ELSE fip_core(in, inv, env)

\* The module parameters of a floating_ip run.
FipParams ==
    [floating_ip_address : Addresses \cup {""},
     floating_network_name : {"ext_net", "dup", "nonet"},
     project_name : {"", "devstack", "p1", "other", "ghost"},
     state : {"present", "absent"},
     timeout : {60},
     wait : BOOLEAN,
     check_mode : BOOLEAN]

\* What the cloud decides on a mutating call.
FipEnvs ==
    {[fail |-> TRUE, address |-> ""]} \cup [fail : {FALSE}, address : Addresses]

\* ------------------------------------------------ image_import: strings
\* A string of the image module is a sequence of atoms: "." "/" ":" are the
\* one-character atoms the code looks for, every other atom is a non-empty
\* run of ordinary characters.  <<>> is None (and '').

None == <<>>

IndexOfFirst(s, a) ==
    LET at == {i \in 1..Len(s) : s[i] = a}
    IN  IF at = {} THEN 0 ELSE CHOOSE i \in at : \A j \in at : i <= j

IndexOfLast(s, a) ==
    LET at == {i \in 1..Len(s) : s[i] = a}
    IN  IF at = {} THEN 0 ELSE CHOOSE i \in at : \A j \in at : i >= j

\* urlsplit(uri).scheme: the characters before the first ':' when they can
\* be a scheme
urlsplit_scheme(uri) ==
    LET i == IndexOfFirst(uri, ":")
    IN  IF i > 1 /\ uri[1] /= "." /\ (\A k \in 1..(i - 1) : uri[k] /= "/")
        THEN SubSeq(uri, 1, i - 1)
        ELSE None

\* urlsplit(uri).path: what follows the scheme and the //netloc
urlsplit_path(uri) ==
    LET scheme == urlsplit_scheme(uri)
        rest == IF scheme = None THEN uri
                ELSE SubSeq(uri, Len(scheme) + 2, Len(uri))
    IN  IF Len(rest) >= 2 /\ rest[1] = "/" /\ rest[2] = "/"
        THEN LET after == SubSeq(rest, 3, Len(rest))
                 j == IndexOfFirst(after, "/")
             IN  IF j = 0 THEN None ELSE SubSeq(after, j, Len(after))
        ELSE rest

\* import_, lines 201-202 (and delete, lines 325-326)
uri_is_url(uri) ==
    urlsplit_scheme(uri) /= <<"file">> /\ Len(urlsplit_scheme(uri)) > 0

\* os.path.basename
basename(p) == SubSeq(p, IndexOfLast(p, "/") + 1, Len(p))

\* os.path.splitext(p)[-1]: from the last dot of the last path component,
\* leading dots of the component not counting
splitext_ext(p) ==
    LET sep == IndexOfLast(p, "/")
        dot == IndexOfLast(p, ".")
    IN  IF dot > sep /\ (\E k \in (sep + 1)..(dot - 1) : p[k] /= ".")
        THEN SubSeq(p, dot, Len(p))
        ELSE None

\* os.path.join(dir, filename)
path_join(dir, filename) ==
    IF filename /= None /\ filename[1] = "/" THEN filename
    ELSE dir \o <<"/">> \o filename

\* re.findall("filename=(.+)", cd)[0], None on IndexError
cd_filename(cd) ==
    LET i == IndexOfFirst(cd, "filename=")
    IN  IF i = 0 \/ i = Len(cd) THEN None ELSE SubSeq(cd, i + 1, Len(cd))

\* import_, lines 230-233 and 289-292: the extension of the name, its
\* leading dot removed when something follows it
infer_format(name) ==
    LET ext == splitext_ext(name)
    IN  IF Len(ext) > 1 THEN Tail(ext) ELSE ext

\* core, lines 369-376: checksum.split(':', 1)
split_checksum(checksum) ==
    LET i == IndexOfFirst(checksum, ":")
    IN  IF checksum = None
        THEN [ok |-> TRUE, algorithm |-> None, checksum |-> None]
        ELSE IF i = 0
        THEN [ok |-> FALSE, algorithm |-> None, checksum |-> None]
        ELSE [ok |-> TRUE, algorithm |-> SubSeq(checksum, 1, i - 1),
              checksum |-> SubSeq(checksum, i + 1, Len(checksum))]

\* core, lines 381 and 418: "%s:%s" % (algorithm, checksum), None without one
join_checksum(given, algorithm, checksum) ==
    IF given THEN algorithm \o <<":">> \o checksum ELSE None

\* ------------------------------------------- image_import: surroundings

DebianQcow2 == <<"debian-10", ".", "qcow2">>
Plain == <<"plain">>

NoFile == [path |-> None, size |-> 0, md5 |-> None, sha256 |-> None]

\* Local storage before a run.
LocalFiles ==
    { [path |-> <<"/", "srv", "/">> \o DebianQcow2, size |-> 512,
       md5 |-> <<"m-local">>, sha256 |-> <<"s-good">>],
      [path |-> <<"/", "srv", "/">> \o Plain, size |-> 256,
       md5 |-> <<"m-plain">>, sha256 |-> <<"s-good">>] }

\* tempfile.TemporaryDirectory()
TmpDir == <<"/", "tmp", "/", "tmpdir">>

UrlDebian == <<"https", ":", "/", "/", "host", "/">> \o DebianQcow2
UrlPlain == <<"https", ":", "/", "/", "host", "/", "dl", "/">> \o Plain
UrlHinted == <<"https", ":", "/", "/", "host", "/", "get", "/">>
UrlDown == <<"https", ":", "/", "/", "down", "/">> \o DebianQcow2
\* a server that names an absolute path in its Content-Disposition header
UrlAbsolute == <<"https", ":", "/", "/", "host", "/", "abs", "/">>

\* What open_url(uri) answers: whether the server answers at all, its
\* Content-Disposition header and the content it would stream.
Remote(uri) ==
    [reachable |-> uri /= UrlDown,
     content_disposition |->
        IF uri = UrlHinted
        THEN <<"attachment; ", "filename=">> \o DebianQcow2
        ELSE IF uri = UrlAbsolute
        THEN <<"attachment; ", "filename=", "/", "srv", "/">> \o DebianQcow2
        ELSE None,
     size |-> 1024, md5 |-> <<"m-remote">>,
     sha256 |-> IF uri = UrlDebian THEN <<"s-good">> ELSE <<"s-other">>]

NoImage == [id |-> None, name |-> None, size |-> 0, disk_format |-> None]

\* Ids the cloud assigns to images created without one.
FreshIds == << <<"uuid-1">>, <<"uuid-2">>, <<"uuid-3">>, <<"uuid-4">> >>

\* ------------------------------------------- image_import: cloud calls

matching_images(inv, name_or_id) ==
    SelectSeq(inv, LAMBDA i : i.id = name_or_id \/ i.name = name_or_id)

\* cloud.get_image(name_or_id=...): the image, None, or an error of the
\* cloud when the name matches several images
get_image(inv, name_or_id) ==
    LET found == matching_images(inv, name_or_id)
    IN  [ok |-> Len(found) <= 1,
         image |-> IF Len(found) = 1 THEN found[1] ELSE NoImage]

\* cloud.create_image(name=, filename=, disk_format=, wait=, timeout=, id=)
create_image(inv, name, file, disk_format, id, env) ==
    LET used == {inv[i].id : i \in 1..Len(inv)}
        free == {k \in 1..Len(FreshIds) : FreshIds[k] \notin used}
        newid == IF id /= None THEN id
                 ELSE IF free = {} THEN None
                 ELSE FreshIds[CHOOSE k \in free : \A j \in free : k <= j]
        image == [id |-> newid, name |-> name, size |-> file.size,
                  disk_format |-> disk_format]
    IN  IF env.fail \/ Len(inv) >= MaxImages \/ newid = None \/ newid \in used
        THEN [ok |-> FALSE, image |-> NoImage, images |-> inv]
        ELSE [ok |-> TRUE, image |-> image, images |-> Append(inv, image)]

\* cloud.delete_image(name_or_id, wait=, timeout=)
delete_image(inv, name_or_id, env) ==
    LET found == matching_images(inv, name_or_id)
    IN  IF env.fail \/ Len(found) /= 1
        THEN [ok |-> FALSE, images |-> inv]
        ELSE [ok |-> TRUE, images |-> SelectSeq(inv, LAMBDA i : i /= found[1])]

\* module.digest_from_file(path, algorithm)
digest_from_file(file, algorithm) ==
    IF algorithm = <<"md5">> THEN [ok |-> TRUE, digest |-> file.md5]
    ELSE IF algorithm = <<"sha256">> THEN [ok |-> TRUE, digest |-> file.sha256]
    ELSE [ok |-> FALSE, digest |-> None]

\* --------------------------------------------- image_import: outcomes

ImgRaise(error, calls, inv, left) ==
    [ok |-> FALSE, error |-> error, changed |-> FALSE,
     id |-> None, name |-> None, size |-> 0, format |-> None, checksum |-> None,
     calls |-> calls, images |-> inv, leftover |-> left]

ImgReturn(changed, id, name, size, format, calls, inv, left) ==
    [ok |-> TRUE, error |-> "", changed |-> changed,
     id |-> id, name |-> name, size |-> size, format |-> format, checksum |-> None,
     calls |-> calls, images |-> inv, leftover |-> left]

image_exists_never(image) == FALSE

\* import_, lines 241 and 280: if image
image_exists(image) == image /= NoImage

\* import_, lines 243-247 and 282-286
ImgExisting(image, calls, inv, left) ==
    ImgReturn(FALSE, image.id, image.name, image.size, image.disk_format,
              calls, inv, left)

\* ------------------------------------------- image_import: import_from_disk

file_at(fs, path) ==
    IF \E f \in fs : f.path = path THEN CHOOSE f \in fs : f.path = path
    ELSE NoFile

DiskRaise(error, calls, inv) ==
    [ok |-> FALSE, error |-> error, id |-> None, size |-> 0,
     calls |-> calls, images |-> inv]

checksum_mismatch_never(checksum, checksum_on_disk) == FALSE

\* import_from_disk, line 157
checksum_mismatch(checksum, checksum_on_disk) == checksum /= checksum_on_disk

checksum_given_never(checksum) == FALSE

\* import_from_disk, line 154: if checksum
checksum_given(checksum) == checksum /= None

uploaded_then_checked(cr, calls, path, fs, inv) ==
    IF ~cr.ok THEN DiskRaise("CollaboratorError", calls, inv)
    ELSE IF file_at(fs, path) = NoFile
    THEN DiskRaise("PathError", Append(calls, [fn |-> "pathExists", path |-> path]),
                   cr.images)
    ELSE [ok |-> TRUE, error |-> "", id |-> cr.image.id, size |-> cr.image.size,
          calls |-> Append(calls, [fn |-> "pathExists", path |-> path]),
          images |-> cr.images]

\* the upload issued before the file is looked at
import_from_disk_upload_first(algorithm, checksum, format, id, name, in, path, fs, inv, env, calls) ==
    uploaded_then_checked(
        create_image(inv, name, file_at(fs, path), format, id, env),
        Append(calls, [fn |-> "createImage", name |-> name, filename |-> path,
                       disk_format |-> format, id |-> id,
                       wait |-> in.wait, timeout |-> in.timeout,
                       validate_checksum |-> FALSE, checksum |-> checksum]),
        path, fs, inv)

\* import_from_disk, lines 176-187: the image the cloud created
uploaded(cr, calls, inv) ==
    IF ~cr.ok THEN DiskRaise("CollaboratorError", calls, inv)
    ELSE [ok |-> TRUE, error |-> "", id |-> cr.image.id, size |-> cr.image.size,
          calls |-> calls, images |-> cr.images]

import_from_disk(algorithm, checksum, format, id, name, in, path, fs, inv, env, calls) ==
    LET file == file_at(fs, path)
        c1 == Append(calls, [fn |-> "pathExists", path |-> path])
    IN
    IF file = NoFile THEN DiskRaise("PathError", c1, inv) ELSE
    LET verify == checksum_given(checksum)
        on_disk == digest_from_file(file, algorithm)
        c2 == IF verify
              THEN Append(c1, [fn |-> "digestFromFile", path |-> path,
                               algorithm |-> algorithm])
              ELSE c1
    IN
    IF verify /\ ~on_disk.ok THEN DiskRaise("DigestError", c2, inv) ELSE
    IF verify /\ checksum_mismatch(checksum, on_disk.digest)
    THEN DiskRaise("ChecksumMismatchError", c2, inv) ELSE
    LET name_or_id == IF id /= None THEN id ELSE name
        gi == get_image(inv, name_or_id)
        c3 == Append(c2, [fn |-> "getImage", name_or_id |-> name_or_id])
    IN
    IF ~gi.ok THEN DiskRaise("CollaboratorError", c3, inv) ELSE
    IF gi.image /= NoImage THEN DiskRaise("ImageExistsError", c3, inv) ELSE
    uploaded(create_image(inv, name, file, format, id, env),
             Append(c3, [fn |-> "createImage", name |-> name, filename |-> path,
                         disk_format |-> format, id |-> id,
                         wait |-> in.wait, timeout |-> in.timeout,
                         validate_checksum |-> algorithm \in {<<"md5">>, <<"sha256">>},
                         checksum |-> checksum]),
             inv)

\* ---------------------------------------------------- image_import: import_

\* Directories of local storage a file can be created in.
LocalDirs == { <<"/", "srv">>, <<"/", "tmp">>, TmpDir }

dirname(p) == SubSeq(p, 1, IndexOfLast(p, "/") - 1)

Released_never(calls) == calls

\* leaving "with tempfile.TemporaryDirectory() as dir" removes dir and all in it
Released(calls) == Append(calls, [fn |-> "rmtree", dir |-> TmpDir])

Survives(path) == IF dirname(path) = TmpDir THEN {} ELSE {path}

\* import_, lines 254-266: what import_from_disk gave, the directory left
imported_url(d, name, format, inv, left) ==
    IF ~d.ok THEN ImgRaise(d.error, Released(d.calls), inv, left)
    ELSE ImgReturn(TRUE, d.id, name, d.size, format, Released(d.calls), d.images, left)

\* import_, lines 297-309: what import_from_disk gave
imported_path(d, name, format, inv) ==
    IF ~d.ok THEN ImgRaise(d.error, d.calls, inv, {})
    ELSE ImgReturn(TRUE, d.id, name, d.size, format, d.calls, d.images, {})

\* import_, lines 204-266: the source is a url
import_url(algorithm, checksum, in, inv, env) ==
    LET c0 == <<[fn |-> "mkdtemp", dir |-> TmpDir]>>
        r == Remote(in.uri)
        c1 == Append(c0, [fn |-> "fetchRemote", uri |-> in.uri])
    IN
    IF ~r.reachable THEN ImgRaise("CollaboratorError", Released(c1), inv, {}) ELSE
    LET hinted == cd_filename(r.content_disposition)
        from_uri == IF hinted = None THEN basename(urlsplit_path(in.uri)) ELSE hinted
        filename == IF from_uri = None THEN in.name ELSE from_uri
        name == IF in.name = None THEN filename ELSE in.name
    IN
    IF filename = None THEN ImgRaise("ResolutionError", Released(c1), inv, {}) ELSE
    LET format == IF in.format = None THEN infer_format(name) ELSE in.format IN
    IF format = None THEN ImgRaise("ResolutionError", Released(c1), inv, {}) ELSE
    LET name_or_id == IF in.id /= None THEN in.id ELSE name
        gi == get_image(inv, name_or_id)
        c2 == Append(c1, [fn |-> "getImage", name_or_id |-> name_or_id])
    IN
    IF ~gi.ok THEN ImgRaise("CollaboratorError", Released(c2), inv, {}) ELSE
    IF image_exists(gi.image) THEN ImgExisting(gi.image, Released(c2), inv, {}) ELSE
    LET local_image_path == path_join(TmpDir, filename)
        c3 == Append(c2, [fn |-> "writeFile", path |-> local_image_path])
        downloaded == [path |-> local_image_path, size |-> r.size,
                       md5 |-> r.md5, sha256 |-> r.sha256]
        fs == {f \in LocalFiles : f.path /= local_image_path} \cup {downloaded}
        left == Survives(local_image_path)
    IN
    IF dirname(local_image_path) \notin LocalDirs
    THEN ImgRaise("IOError", Released(c2), inv, {}) ELSE
    imported_url(import_from_disk(algorithm, checksum, format, in.id, name, in,
                                  local_image_path, fs, inv, env, c3),
                 name, format, inv, left)

\* import_, lines 268-309: the source is a local path
import_path(algorithm, checksum, in, inv, env) ==
    LET given == IF in.id /= None THEN in.id ELSE in.name
        name == IF given = None THEN basename(in.uri) ELSE in.name
    IN
    IF given = None /\ name = None THEN ImgRaise("ResolutionError", NoCalls, inv, {}) ELSE
    LET name_or_id == IF given = None THEN name ELSE given
        gi == get_image(inv, name_or_id)
        c1 == <<[fn |-> "getImage", name_or_id |-> name_or_id]>>
    IN
    IF ~gi.ok THEN ImgRaise("CollaboratorError", c1, inv, {}) ELSE
    IF image_exists(gi.image) THEN ImgExisting(gi.image, c1, inv, {}) ELSE
    \* os.path.splitext(None) is a TypeError
    IF in.format = None /\ name = None THEN ImgRaise("TypeError", c1, inv, {}) ELSE
    LET format == IF in.format = None THEN infer_format(name) ELSE in.format IN
    IF format = None THEN ImgRaise("ResolutionError", c1, inv, {}) ELSE
    imported_path(import_from_disk(algorithm, checksum, format, in.id, name, in,
                                   in.uri, LocalFiles, inv, env, c1),
                  name, format, inv)

import_(algorithm, checksum, in, inv, env) ==
    IF uri_is_url(in.uri) THEN import_url(algorithm, checksum, in, inv, env)
    ELSE import_path(algorithm, checksum, in, inv, env)

\* ----------------------------------------------------- image_import: delete

image_absent_always(image) == TRUE

\* delete, line 340: if not image
image_absent(image) == image = NoImage

delete(algorithm, checksum, in, inv, env) ==
    LET given == IF in.id /= None THEN in.id ELSE in.name
        name == IF given = None THEN basename(in.uri) ELSE in.name
    IN
    IF given = None /\ uri_is_url(in.uri)
    THEN ImgRaise("ResolutionError", NoCalls, inv, {}) ELSE
    IF given = None /\ name = None
    THEN ImgRaise("ResolutionError", NoCalls, inv, {}) ELSE
    LET name_or_id == IF given = None THEN name ELSE given
        gi == get_image(inv, name_or_id)
        c1 == <<[fn |-> "getImage", name_or_id |-> name_or_id]>>
    IN
    IF ~gi.ok THEN ImgRaise("CollaboratorError", c1, inv, {}) ELSE
    IF image_absent(gi.image)
    THEN ImgReturn(FALSE, in.id, name, 0, None, c1, inv, {}) ELSE
    LET dr == delete_image(inv, name_or_id, env)
        c2 == Append(c1, [fn |-> "deleteImage", name_or_id |-> name_or_id,
                          wait |-> in.wait, timeout |-> in.timeout])
    IN
    IF ~dr.ok THEN ImgRaise("CollaboratorError", c2, inv, {})
    ELSE ImgReturn(TRUE, gi.image.id, gi.image.name, gi.image.size,
                   gi.image.disk_format, c2, dr.images, {})

\* ------------------------------------------------- image_import: core, main

\* core, lines 378-388: the parameters echoed, nothing contacted
img_check_mode(in, inv) ==
    ImgReturn(FALSE, in.id, in.name, 0, in.format, NoCalls, inv, {})

\* core, lines 369-413: the checksum split, then check mode or the reconciler
img_dispatch(in, cs, inv, env) ==
    IF ~cs.ok THEN ImgRaise("ChecksumFormatError", NoCalls, inv, {})
    ELSE IF in.check_mode THEN img_check_mode(in, inv)
    ELSE IF in.state = "present"
         THEN import_(cs.algorithm, cs.checksum, in, inv, env)
         ELSE delete(cs.algorithm, cs.checksum, in, inv, env)

\* core, lines 381 and 418: the checksum put together again in the result
img_result(r, in, cs) ==
    [r EXCEPT !.checksum =
        IF r.ok THEN join_checksum(in.checksum /= None, cs.algorithm, cs.checksum)
        ELSE None]

img_core(in, inv, env) ==
    img_result(img_dispatch(in, split_checksum(in.checksum), inv, env),
               in, split_checksum(in.checksum))

img_main(in, inv, env) == img_core(in, inv, env)

\* The module parameters of an image_import run.
ImgParams ==
    [checksum : {None, <<"sha256", ":", "s-good">>, <<"sha256", ":", "s-bad">>,
                 <<"s-good">>},
     format : {None, <<"raw">>},
     id : {None, <<"id-1">>},
     name : {None, DebianQcow2, Plain, Plain \o <<".">>},
     state : {"present", "absent"},
     timeout : {60},
     uri : {<<"/", "srv", "/">> \o DebianQcow2, <<"/", "srv", "/">> \o Plain,
            <<"/", "srv", "/", "gone", ".", "qcow2">>,
            UrlDebian, UrlPlain, UrlHinted, UrlDown, UrlAbsolute},
     wait : BOOLEAN,
     check_mode : BOOLEAN]

\* What the cloud decides on a mutating call.
ImgEnvs == [fail : BOOLEAN]

\* Images that may exist before the first run.
ImageRecs ==
    [id : {<<"id-1">>, <<"id-7">>}, name : {DebianQcow2, Plain},
     size : {512}, disk_format : {<<"qcow2">>}]

\* the cloud keeps image ids unique
UniqueIds(inv) ==
    \A i, j \in 1..Len(inv) : inv[i].id = inv[j].id => i = j

\* ------------------------------------------------------------ the machine
\* A play runs one task, again and again: the first run draws the module
\* parameters, every later run repeats them.  The inventory before the first
\* run is any inventory within the bounds.  last.before is the inventory the
\* latest run started from.

NoRun == [op |-> "none"]

Outcome(r) == [f \in (DOMAIN r) \ {"fips", "images", "leftover"} |-> r[f]]

Task(op, params) ==
    IF last = NoRun THEN params
    ELSE IF last.op = op THEN {last.in}
    ELSE {}

Init ==
    /\ \/ fips \in SeqsUpTo(FipRecs, MaxFips) /\ images = <<>>
       \/ fips = <<>> /\ images \in {inv \in SeqsUpTo(ImageRecs, MaxImages) : UniqueIds(inv)}
    /\ leftover = {}
    /\ last = NoRun
    /\ prev = NoRun

\* a run ends: the inventory it leaves, and the record of the run
Ran(op, in, r) ==
    /\ last' = [op |-> op, in |-> in, res |-> Outcome(r),
                before |-> [fips |-> fips, images |-> images]]
    /\ prev' = last
    /\ fips' = IF op = "floating_ip" THEN r.fips ELSE fips
    /\ images' = IF op = "image_import" THEN r.images ELSE images
    /\ leftover' = IF op = "image_import" THEN leftover \cup r.leftover ELSE leftover

FloatingIp ==
    \E in \in Task("floating_ip", FipParams), env \in FipEnvs :
        Ran("floating_ip", in, fip_main(in, fips, env))

ImageImport ==
    \E in \in Task("image_import", ImgParams), env \in ImgEnvs :
        Ran("image_import", in, img_main(in, images, env))

Next == FloatingIp \/ ImageImport

Spec == Init /\ [][Next]_vars

\* ------------------------------------------------------------- properties

Fns(run) == {run.res.calls[i].fn : i \in 1..Len(run.res.calls)}

IsFip == last.op = "floating_ip"
IsImg == last.op = "image_import"

\* the latest run repeats the run before it, and both reached the reconciler
Repeated(op, state) ==
    /\ last.op = op
    /\ prev /= NoRun
    /\ last.in.state = state
    /\ ~last.in.check_mode

C2_ImportTwice ==
    (Repeated("image_import", "present") /\ prev.res.ok /\ prev.res.changed) =>
        /\ last.res.ok
        /\ ~last.res.changed
        /\ "createImage" \notin Fns(last)
        /\ images = last.before.images
        /\ last.res.id = prev.res.id
        /\ last.res.name = prev.res.name
        /\ last.res.format = prev.res.format

\* a remote image with an inferred name and format was imported, then run again
C2_Witness ==
    /\ Repeated("image_import", "present")
    /\ uri_is_url(last.in.uri)
    /\ last.in.id = None /\ last.in.name = None /\ last.in.format = None
    /\ prev.res.ok /\ prev.res.changed
    /\ "createImage" \in Fns(prev)
    /\ last.res.ok /\ ~last.res.changed

\* the image the parameters of a run name: id, else name, else the basename
\* of a local locator
DeleteKey(in) ==
    IF in.id /= None THEN in.id
    ELSE IF in.name /= None THEN in.name
    ELSE basename(in.uri)

\* whether the target of an absent run was in the inventory the run started from
TargetExisted(run) ==
    IF run.op = "floating_ip"
    THEN \E i \in 1..Len(run.before.fips) :
            /\ run.before.fips[i].floating_ip_address = run.in.floating_ip_address
            /\ run.before.fips[i].network = run.res.floating_network_id
            /\ run.before.fips[i].tenant_id = run.res.project_id
    ELSE \E i \in 1..Len(run.before.images) :
            \/ run.before.images[i].id = DeleteKey(run.in)
            \/ run.before.images[i].name = DeleteKey(run.in)

\* C3: state absent, either reconciler, run twice with the same parameters:
\* when the first run returns, it reports changed=true exactly if the target
\* existed, and the second run returns changed=false and issues no delete.
C3_AbsentTwice ==
    ((Repeated("floating_ip", "absent") \/ Repeated("image_import", "absent"))
        /\ prev.res.ok) =>
        /\ prev.res.changed <=> TargetExisted(prev)
        /\ last.res.ok
        /\ ~last.res.changed
        /\ Fns(last) \cap {"deleteFloatingIP", "deleteImage"} = {}
        /\ fips = last.before.fips
        /\ images = last.before.images

\* a floating ip was released, then released again
C3_Witness ==
    /\ Repeated("floating_ip", "absent")
    /\ prev.res.ok /\ prev.res.changed
    /\ "deleteFloatingIP" \in Fns(prev)
    /\ last.res.ok /\ ~last.res.changed

\* ---- check mode

\* main's required_if let the parameters through to core
Validated(run) ==
    ~(run.op = "floating_ip" /\ run.in.state = "absent"
        /\ run.in.floating_ip_address = "")

\* an image checksum that is not <algorithm>:<checksum>
Malformed(run) ==
    /\ run.op = "image_import"
    /\ run.in.checksum /= None
    /\ \A i \in 1..Len(run.in.checksum) : run.in.checksum[i] /= ":"

Echoed(run) ==
    IF run.op = "floating_ip"
    THEN /\ run.res.floating_ip_address = run.in.floating_ip_address
         /\ run.res.floating_network_name = run.in.floating_network_name
         /\ run.res.project_name = run.in.project_name
    ELSE /\ run.res.id = run.in.id
         /\ run.res.name = run.in.name
         /\ run.res.format = run.in.format
         /\ run.res.checksum = run.in.checksum

Untouched ==
    /\ last.res.calls = NoCalls
    /\ fips = last.before.fips
    /\ images = last.before.images

Mutating == {"createFloatingIP", "deleteFloatingIP", "createImage", "deleteImage"}

\* resolution, lookup and verification steps
Lookups ==
    {"getProject", "searchNetworks", "searchFloatingIPs", "getImage",
     "fetchRemote", "writeFile", "pathExists", "digestFromFile"}

MutatingAt(run) ==
    {i \in 1..Len(run.res.calls) : run.res.calls[i].fn \in Mutating}

\* C5: a run issues at most one mutating call, every resolution, lookup and
\* verification step of the run comes before it, a run that fails in such a
\* step has issued none, and the inventory changes only by that call.
C5_OneMutatingCallLast ==
    last /= NoRun =>
        /\ Cardinality(MutatingAt(last)) <= 1
        /\ \A i \in MutatingAt(last) : \A j \in 1..Len(last.res.calls) :
              last.res.calls[j].fn \in Lookups => j < i
        /\ (~last.res.ok /\ last.res.error /= "CollaboratorError")
              => MutatingAt(last) = {}
        /\ (fips /= last.before.fips \/ images /= last.before.images)
              => MutatingAt(last) /= {}

\* a remote import that verified the download and then uploaded it
C5_Witness ==
    /\ IsImg /\ last.res.ok /\ last.res.changed
    /\ {"fetchRemote", "digestFromFile", "getImage", "createImage"} \subseteq Fns(last)

\* ---- checksum

\* the sha256 digest of the file an import reads
DigestOnDisk(in) ==
    IF uri_is_url(in.uri) THEN Remote(in.uri).sha256
    ELSE file_at(LocalFiles, in.uri).sha256

ExpectedDigest(in) == SubSeq(in.checksum, 3, Len(in.checksum))

\* C6: an import that computes the digest of the file: when it equals the
\* expected digest the run goes on to the lookup before upload; when it
\* differs the run fails with a checksum mismatch, has issued no createImage
\* and leaves the images as they were.  No upload follows a mismatch.
C6_ChecksumVerified ==
    (IsImg /\ "digestFromFile" \in Fns(last)) =>
        IF ExpectedDigest(last.in) = DigestOnDisk(last.in)
        THEN /\ last.res.error /= "ChecksumMismatchError"
             /\ last.res.calls[Len(last.res.calls)].fn /= "digestFromFile"
        ELSE /\ ~last.res.ok
             /\ last.res.error = "ChecksumMismatchError"
             /\ "createImage" \notin Fns(last)
             /\ images = last.before.images

\* a download whose digest differs from the expected one
C6_Witness ==
    /\ IsImg /\ uri_is_url(last.in.uri)
    /\ "digestFromFile" \in Fns(last)
    /\ ExpectedDigest(last.in) /= DigestOnDisk(last.in)
    /\ last.res.error = "ChecksumMismatchError"

\* ---- existing image

\* the identity key of an import: id, else name, else the inferred name
ImportKey(in) ==
    IF in.id /= None THEN in.id
    ELSE IF in.name /= None THEN in.name
    ELSE IF ~uri_is_url(in.uri) THEN basename(in.uri)
    ELSE IF cd_filename(Remote(in.uri).content_disposition) /= None
    THEN cd_filename(Remote(in.uri).content_disposition)
    ELSE basename(urlsplit_path(in.uri))

Existing(run) == matching_images(run.before.images, ImportKey(run.in))

\* an import of an image whose identity key names one image of the inventory
ImportOfExisting ==
    /\ IsImg /\ last.in.state = "present" /\ ~last.in.check_mode
    /\ ~Malformed(last)
    /\ Len(Existing(last)) = 1

\* C7 as claimed: importing an image that exists returns changed=false with
\* the existing image's id, name, size and format, and does not call
\* fetchRemote, for local and remote locators alike (stated for the runs that
\* return).
C7_ExistingNotFetched ==
    (ImportOfExisting /\ last.res.ok) =>
        /\ ~last.res.changed
        /\ last.res.id = Existing(last)[1].id
        /\ last.res.name = Existing(last)[1].name
        /\ last.res.size = Existing(last)[1].size
        /\ last.res.format = Existing(last)[1].disk_format
        /\ "fetchRemote" \notin Fns(last)

\* C8 as claimed: importing an image that exists never fails, verifies no
\* checksum and issues no createImage, whatever the other parameters.
C8_ExistingShortCircuits ==
    (ImportOfExisting /\ (uri_is_url(last.in.uri) => Remote(last.in.uri).reachable)) =>
        /\ last.res.ok /\ ~last.res.changed
        /\ "digestFromFile" \notin Fns(last)
        /\ "createImage" \notin Fns(last)

\* ---- format inference

\* the extension of the filename the locator ends in, without its dot
LocatorExtension(in) ==
    IF uri_is_url(in.uri) THEN infer_format(basename(urlsplit_path(in.uri)))
    ELSE infer_format(basename(in.uri))

\* C9 as claimed, for a locator that ends in a filename with extension:
\* importing an image that does not exist yet, no format given, the format
\* uploaded and reported is that extension, whatever id and name are given.
C9_FormatFromLocator ==
    (/\ IsImg /\ last.in.state = "present" /\ ~last.in.check_mode
     /\ ~Malformed(last)
     /\ (uri_is_url(last.in.uri) => Remote(last.in.uri).reachable)
     /\ Existing(last) = <<>>
     /\ last.in.format = None
     /\ LocatorExtension(last.in) /= None) =>
        /\ last.res.error \notin {"ResolutionError", "TypeError"}
        /\ last.res.ok => last.res.format = LocatorExtension(last.in)
        /\ \A i \in 1..Len(last.res.calls) :
              last.res.calls[i].fn = "createImage"
                 => last.res.calls[i].disk_format = LocatorExtension(last.in)

\* ---- network resolution

\* the networks the query of a run's searchNetworks call matches
NetworksMatched(call) ==
    {i \in 1..Len(Networks) :
        /\ call.name_or_id \in {Networks[i].id, Networks[i].name}
        /\ Networks[i].tenant_id = call.tenant_id}

\* C10: a run that queries the networks: with no match or several it fails
\* with an error and has issued no floating ip lookup and no mutating call;
\* with one match it goes on with that network.
C10_NetworkResolution ==
    (IsFip /\ "searchNetworks" \in Fns(last)) =>
        LET at == CHOOSE i \in 1..Len(last.res.calls) :
                      last.res.calls[i].fn = "searchNetworks"
            matched == NetworksMatched(last.res.calls[at])
        IN  IF Cardinality(matched) /= 1
            THEN /\ ~last.res.ok
                 /\ last.res.error = "AmbiguousResourceError"
                 /\ "searchFloatingIPs" \notin Fns(last)
                 /\ MutatingAt(last) = {}
                 /\ fips = last.before.fips
            ELSE /\ last.res.error /= "AmbiguousResourceError"
                 /\ \E j \in 1..Len(last.res.calls) :
                       /\ last.res.calls[j].fn = "searchFloatingIPs"
                       /\ \A n \in matched :
                             last.res.calls[j].filters.network = Networks[n].id
                 /\ last.res.ok =>
                       \A n \in matched :
                          last.res.floating_network_id = Networks[n].id

\* a release that found two networks of the name
C10_Witness ==
    /\ IsFip /\ last.in.state = "absent"
    /\ last.in.floating_network_name = "dup"
    /\ "searchNetworks" \in Fns(last)
    /\ last.res.error = "AmbiguousResourceError"

\* ---- release without an address

\* C11: floating ip, state absent, no address given: the run fails with a
\* missing-prerequisite error and has issued no call at all (no project
\* resolution, no network resolution, no floating ip lookup, no delete); the
\* inventory is as it was.
C11_AbsentNeedsAddress ==
    (IsFip /\ last.in.state = "absent" /\ last.in.floating_ip_address = "") =>
        /\ ~last.res.ok
        /\ last.res.error = "MissingPrerequisiteError"
        /\ last.res.calls = NoCalls
        /\ fips = last.before.fips

\* a release without address on a network that holds a floating ip of the project
C11_Witness ==
    /\ IsFip /\ last.in.state = "absent" /\ ~last.in.check_mode
    /\ last.in.floating_ip_address = ""
    /\ last.in.floating_network_name = "ext_net"
    /\ last.in.project_name = "devstack"
    /\ \E i \in 1..Len(last.before.fips) : last.before.fips[i].tenant_id = "p1"
    /\ last.res.error = "MissingPrerequisiteError"

\* ---- wait and timeout

\* C12 as claimed: every mutating call of a run (createFloatingIP,
\* deleteFloatingIP, createImage, deleteImage) carries the wait flag and the
\* timeout of the run's parameters.
C12_WaitTimeoutForwarded ==
    last /= NoRun =>
        \A i \in MutatingAt(last) :
            /\ {"wait", "timeout"} \subseteq DOMAIN last.res.calls[i]
            /\ last.res.calls[i].wait = last.in.wait
            /\ last.res.calls[i].timeout = last.in.timeout

\* ---- the temporary download area

\* an import from a url that reached import_
RemoteImport ==
    /\ IsImg /\ last.in.state = "present" /\ ~last.in.check_mode
    /\ ~Malformed(last)
    /\ uri_is_url(last.in.uri)

CallsOf(run, fn) == {i \in 1..Len(run.res.calls) : run.res.calls[i].fn = fn}

\* C13: an import from a url creates one temporary directory, before any
\* other step, and on every way out (the image exists, name or format not
\* resolved, download failed, checksum mismatch, upload failed, upload done)
\* the last step of the run removes that directory; no file written into it
\* outlives the run.
C13_TempAreaReleased ==
    RemoteImport =>
        /\ CallsOf(last, "mkdtemp") = {1}
        /\ CallsOf(last, "rmtree") = {Len(last.res.calls)}
        /\ last.res.calls[Len(last.res.calls)].dir = last.res.calls[1].dir
        /\ \A p \in leftover : dirname(p) /= last.res.calls[1].dir

\* an upload that the cloud refused, after download and verification
C13_Witness ==
    /\ RemoteImport
    /\ {"writeFile", "digestFromFile", "createImage"} \subseteq Fns(last)
    /\ ~last.res.ok /\ last.res.error = "CollaboratorError"
    /\ last.res.calls[Len(last.res.calls)].fn = "rmtree"

\* ---- allocate

\* the project and the network the parameters of a run name
NamedProjects(in) ==
    {i \in 1..Len(Projects) :
        IF in.project_name = "" THEN Projects[i] = current_project
        ELSE in.project_name \in {Projects[i].id, Projects[i].name}}

NamedNetworks(in) ==
    {i \in 1..Len(Networks) :
        /\ in.floating_network_name \in {Networks[i].id, Networks[i].name}
        /\ \E p \in NamedProjects(in) : Networks[i].tenant_id = Projects[p].id}

\* a floating_ip run whose project and network both resolve
Resolved(run) ==
    /\ run.op = "floating_ip" /\ ~run.in.check_mode
    /\ Cardinality(NamedProjects(run.in)) = 1
    /\ Cardinality(NamedNetworks(run.in)) = 1

TheProject(in) == Projects[CHOOSE i \in NamedProjects(in) : TRUE]
TheNetwork(in) == Networks[CHOOSE i \in NamedNetworks(in) : TRUE]

\* the floating ips of the inventory a run started from that lie on the named
\* network, belong to the named project and, when withAddress, have the
\* address of the parameters
Matching(run, withAddress) ==
    SelectSeq(run.before.fips,
              LAMBDA f : /\ f.network = TheNetwork(run.in).id
                         /\ f.tenant_id = TheProject(run.in).id
                         /\ (withAddress =>
                               f.floating_ip_address = run.in.floating_ip_address))

C15_ReleaseAbsent ==
    (/\ Resolved(last) /\ last.in.state = "absent"
     /\ last.in.floating_ip_address /= ""
     /\ Matching(last, TRUE) = <<>>) =>
        /\ last.res.ok /\ ~last.res.changed
        /\ last.res.floating_ip_address = last.in.floating_ip_address
        /\ CallsOf(last, "deleteFloatingIP") = {}
        /\ fips = last.before.fips

\* the network holds another address of the project, not the requested one
C15_Witness ==
    /\ Resolved(last) /\ last.in.state = "absent"
    /\ last.in.floating_ip_address = "203.0.113.2"
    /\ Matching(last, TRUE) = <<>>
    /\ Matching(last, FALSE) /= <<>>
    /\ last.res.ok /\ ~last.res.changed

\* C16: release, project and network resolved, more than one floating ip
\* matches {address, network, project}: the run fails, issues no
\* deleteFloatingIP and leaves the inventory as it was.
C16_ReleaseAmbiguous ==
    (/\ Resolved(last) /\ last.in.state = "absent"
     /\ last.in.floating_ip_address /= ""
     /\ Len(Matching(last, TRUE)) > 1) =>
        /\ ~last.res.ok
        /\ CallsOf(last, "deleteFloatingIP") = {}
        /\ fips = last.before.fips

\* the lookup returned the requested address twice
C16_Witness ==
    /\ Resolved(last) /\ last.in.state = "absent"
    /\ Len(Matching(last, TRUE)) = 2
    /\ "searchFloatingIPs" \in Fns(last)
    /\ ~last.res.ok /\ last.res.error = "AssertionError"

\* ---- download, verification, upload

\* C17: import from a url: the digest is computed of a file the run has
\* written before, nothing is written once the digest is being computed,
\* and createImage comes after the download and after the digest; with a
\* checksum given there is no createImage without a digest before it.
\* (writeFile is the whole "with open(...) as f: copyfileobj" block: the file
\* is closed when the step ends.)
C17_DownloadVerifyUpload ==
    RemoteImport =>
        LET calls == last.res.calls
            written == CallsOf(last, "writeFile")
            digested == CallsOf(last, "digestFromFile")
            uploads == CallsOf(last, "createImage")
        IN  /\ \A d \in digested :
                  /\ \E w \in written : w < d /\ calls[w].path = calls[d].path
                  /\ \A w \in written : w < d
            /\ \A u \in uploads :
                  /\ \E w \in written : w < u /\ calls[w].path = calls[u].filename
                  /\ \A d \in digested : d < u /\ calls[d].path = calls[u].filename
                  /\ last.in.checksum /= None => digested /= {}

\* a download that was verified and then uploaded
C17_Witness ==
    /\ RemoteImport
    /\ last.in.checksum /= None
    /\ CallsOf(last, "writeFile") /= {}
    /\ CallsOf(last, "digestFromFile") /= {}
    /\ CallsOf(last, "createImage") /= {}
    /\ last.res.ok /\ last.res.changed

\* ---- image delete

\* an image delete that reached delete
ImageDelete ==
    /\ IsImg /\ last.in.state = "absent" /\ ~last.in.check_mode
    /\ ~Malformed(last)

\* the images of the inventory the run started from that the key names
Keyed(run) ==
    SelectSeq(run.before.images,
              LAMBDA i : DeleteKey(run.in) \in {i.id, i.name})

\* C18: image delete: the key is id, else name, else the basename of a local
\* locator; with neither id nor name and a url the run fails before any
\* call.  Otherwise: no image of that key, the run returns changed=false and
\* issues no deleteImage; one image of that key, the run issues exactly one
\* deleteImage for the key and, when that call returns, returns changed=true
\* with the id, name, size and format the image had, and the image is gone.
C18_Delete ==
    ImageDelete =>
        IF last.in.id = None /\ last.in.name = None /\ uri_is_url(last.in.uri)
        THEN /\ ~last.res.ok
             /\ last.res.calls = NoCalls
             /\ images = last.before.images
        ELSE /\ \A i \in CallsOf(last, "getImage") :
                   last.res.calls[i].name_or_id = DeleteKey(last.in)
             /\ Keyed(last) = <<>> =>
                   /\ last.res.ok /\ ~last.res.changed
                   /\ CallsOf(last, "getImage") = {1}
                   /\ CallsOf(last, "deleteImage") = {}
                   /\ images = last.before.images
             /\ Len(Keyed(last)) = 1 =>
                   /\ Cardinality(CallsOf(last, "deleteImage")) = 1
                   /\ \A i \in CallsOf(last, "deleteImage") :
                         last.res.calls[i].name_or_id = DeleteKey(last.in)
                   /\ last.res.ok =>
                         /\ last.res.changed
                         /\ last.res.id = Keyed(last)[1].id
                         /\ last.res.name = Keyed(last)[1].name
                         /\ last.res.size = Keyed(last)[1].size
                         /\ last.res.format = Keyed(last)[1].disk_format
                         /\ images = SelectSeq(last.before.images,
                                               LAMBDA i : i /= Keyed(last)[1])
                   /\ ~last.res.ok => images = last.before.images

\* an image named by the basename of a local path is deleted, another is kept
C18_Witness ==
    /\ ImageDelete
    /\ last.in.id = None /\ last.in.name = None
    /\ ~uri_is_url(last.in.uri)
    /\ Len(last.before.images) = 2
    /\ Len(Keyed(last)) = 1
    /\ last.res.ok /\ last.res.changed
    /\ last.res.name = basename(last.in.uri)
    /\ Len(images) = 1

\* ---- format before upload

\* the name an import resolves: the name given, else the filename the
\* locator (or the response's filename hint) yields
ResolvedName(in) ==
    IF in.name /= None THEN in.name
    ELSE IF ~uri_is_url(in.uri) THEN basename(in.uri)
    ELSE IF cd_filename(Remote(in.uri).content_disposition) /= None
    THEN cd_filename(Remote(in.uri).content_disposition)
    ELSE basename(urlsplit_path(in.uri))

\* what follows the last '.' of a name, nothing when it has no '.'
Extension(name) ==
    IF IndexOfLast(name, ".") = 0 THEN None
    ELSE SubSeq(name, IndexOfLast(name, ".") + 1, Len(name))

\* C19 as claimed: every createImage call carries the format given or, when
\* none is given, the non-empty extension of the resolved name; with no
\* format given and a resolved name with nothing after its last '.' the run
\* fails with a resolution error and issues no createImage (stated for
\* imports of an image that does not exist yet, from a source that can be
\* read).
C19_FormatResolvedOrFails ==
    (/\ IsImg /\ last.in.state = "present" /\ ~last.in.check_mode
     /\ ~Malformed(last)) =>
        /\ \A i \in CallsOf(last, "createImage") :
              /\ last.res.calls[i].disk_format /= None
              /\ last.res.calls[i].disk_format =
                    IF last.in.format /= None THEN last.in.format
                    ELSE Extension(ResolvedName(last.in))
        /\ (/\ last.in.format = None
            /\ Extension(ResolvedName(last.in)) = None
            /\ (uri_is_url(last.in.uri) => Remote(last.in.uri).reachable)
            /\ Existing(last) = <<>>) =>
              /\ ~last.res.ok
              /\ last.res.error = "ResolutionError"
              /\ CallsOf(last, "createImage") = {}

\* ---- project resolution

\* C20: a floating_ip run that reaches allocate or release: a project name
\* that is empty or is the name or id of the current project issues no
\* getProject and the run goes on with the current project; any other name
\* issues exactly one getProject, as the first call, and when no project
\* has that name or id the run fails with a not-found error having issued
\* nothing else.
C20_ProjectResolution ==
    (IsFip /\ ~last.in.check_mode /\ Validated(last)) =>
        IF last.in.project_name \in {"", current_project.name, current_project.id}
        THEN /\ CallsOf(last, "getProject") = {}
             /\ last.res.error /= "NotFoundError"
             /\ last.res.calls[1].fn = "searchNetworks"
             /\ last.res.calls[1].tenant_id = current_project.id
             /\ last.res.ok =>
                   /\ last.res.project_id = current_project.id
                   /\ last.res.project_name = current_project.name
        ELSE /\ CallsOf(last, "getProject") = {1}
             /\ last.res.calls[1].name_or_id = last.in.project_name
             /\ IF NamedProjects(last.in) = {}
                THEN /\ ~last.res.ok
                     /\ last.res.error = "NotFoundError"
                     /\ Len(last.res.calls) = 1
                     /\ fips = last.before.fips
                ELSE /\ last.res.error /= "NotFoundError"
                     /\ Len(last.res.calls) > 1
                     /\ last.res.calls[2].fn = "searchNetworks"
                     /\ \A p \in NamedProjects(last.in) :
                           last.res.calls[2].tenant_id = Projects[p].id

\* a release in a project that does not exist, while the address is in use
C20_Witness ==
    /\ IsFip /\ ~last.in.check_mode /\ last.in.state = "absent"
    /\ last.in.project_name = "ghost"
    /\ last.before.fips /= <<>>
    /\ last.res.calls = <<[fn |-> "getProject", name_or_id |-> "ghost"]>>
    /\ last.res.error = "NotFoundError"

\* ---- where the download is written

\* a path below the temporary directory, with no step back out of it
InsideTmpDir(path) ==
    /\ Len(path) > Len(TmpDir) + 1
    /\ SubSeq(path, 1, Len(TmpDir) + 1) = TmpDir \o <<"/">>
    /\ \A k \in 1..Len(path) : path[k] /= ".."

\* C21 as claimed: import from a url: whatever filename the download is
\* stored under (Content-Disposition header, last segment of the url, name
\* given), the file written lies inside the run's temporary directory, and
\* no downloaded file is left on local storage when the run is over.
C21_DownloadInsideTmpDir ==
    RemoteImport =>
        /\ \A w \in CallsOf(last, "writeFile") : InsideTmpDir(last.res.calls[w].path)
        /\ leftover = {}

\* ---- what a release removes

\* the inventory without its i-th floating ip
Without(inv, i) == SubSeq(inv, 1, i - 1) \o SubSeq(inv, i + 1, Len(inv))

\* C22: a floating_ip run with state absent, whether it returns or fails:
\* the inventory afterwards is the inventory before, or the inventory before
\* without one floating ip, and that one has the requested address and lies
\* on the resolved network in the resolved project; every other floating ip
\* is as it was, in its place.  (Networks and projects are never written by
\* the module.)
C22_ReleaseFrame ==
    (IsFip /\ last.in.state = "absent") =>
        \/ fips = last.before.fips
        \/ /\ Resolved(last)
           /\ last.res.ok /\ last.res.changed
           /\ \E i \in 1..Len(last.before.fips) :
                 /\ fips = Without(last.before.fips, i)
                 /\ last.before.fips[i].floating_ip_address
                       = last.in.floating_ip_address
                 /\ last.before.fips[i].network = TheNetwork(last.in).id
                 /\ last.before.fips[i].tenant_id = TheProject(last.in).id

\* the address is held by two projects: the one of the run's project is
\* removed, the other one stays
C22_Witness ==
    /\ IsFip /\ last.in.state = "absent"
    /\ Len(last.before.fips) = 2
    /\ last.before.fips[1].floating_ip_address = last.before.fips[2].floating_ip_address
    /\ last.before.fips[1].tenant_id /= last.before.fips[2].tenant_id
    /\ last.res.ok /\ last.res.changed
    /\ Len(fips) = 1
    /\ fips[1].tenant_id /= last.res.project_id

====
